---------------------------- MODULE Spec2Model ----------------------------
(***************************************************************************)
(* Model of the revenue screenshot analyzer (src/src/revenueAnalyzer.ts):  *)
(* the OCR step of extractTextFromImage, the pure text-mining functions    *)
(* extractNumbers, detectCurrency, findRevenueNumbers, calculateGrowth and *)
(* estimateBreakdown, and the orchestrator analyzeRevenueScreenshot.       *)
(*                                                                         *)
(* A text is a sequence of characters, a character a one-element string;   *)
(* a character outside ASCII is written by its code point ("U+20AC").      *)
(* A JavaScript number is an exact rational [n |-> numerator, d |->        *)
(* denominator] in lowest terms (d > 0), NaN being [n |-> 0, d |-> 0].     *)
(* String indices are 0-based, as in the source.  The rounding error of    *)
(* binary floating point is not modelled.                                  *)
(***************************************************************************)
EXTENDS Integers, Sequences, FiniteSets

(***************************************************************************)
(* Bounds of the model.                                                    *)
(***************************************************************************)
\* Padding lengths are taken up to Slack characters on either side of the
\* place where a keyword enters or leaves the scorer's context window.
Slack == 3

\* Texts carry up to MaxKw of the scorer's keywords beside a number.
MaxKw == 5

\* Calls of extractTextFromImage are counted up to MaxCalls.
MaxCalls == 2

\* The App makes up to MaxAnalyses calls of analyzeRevenueScreenshot.
MaxAnalyses == 2

(***************************************************************************)
(* Characters and strings (the String methods the source calls).           *)
(***************************************************************************)
Min(a, b) == IF a <= b THEN a ELSE b

Max(a, b) == IF a >= b THEN a ELSE b

Digits == <<"0", "1", "2", "3", "4", "5", "6", "7", "8", "9">>

LowerLetters ==
    <<"a", "b", "c", "d", "e", "f", "g", "h", "i", "j", "k", "l", "m",
      "n", "o", "p", "q", "r", "s", "t", "u", "v", "w", "x", "y", "z",
      "U+00FF", "U+00E1", "U+03C0", "U+00F8", "U+00E7", "U+00F6">>

UpperLetters ==
    <<"A", "B", "C", "D", "E", "F", "G", "H", "I", "J", "K", "L", "M",
      "N", "O", "P", "Q", "R", "S", "T", "U", "V", "W", "X", "Y", "Z",
      "U+0178", "U+00C1", "U+03A0", "U+00D8", "U+00C7", "U+00D6">>

IsDigit(c) == \E i \in DOMAIN Digits : Digits[i] = c

DigitVal(c) == (CHOOSE i \in DOMAIN Digits : Digits[i] = c) - 1

\* String.prototype.toUpperCase, character by character
UpperChar(c) ==
    IF \E i \in DOMAIN LowerLetters : LowerLetters[i] = c
    THEN UpperLetters[CHOOSE i \in DOMAIN LowerLetters : LowerLetters[i] = c]
    ELSE c

\* String.prototype.toLowerCase, character by character
LowerChar(c) ==
    IF \E i \in DOMAIN UpperLetters : UpperLetters[i] = c
    THEN LowerLetters[CHOOSE i \in DOMAIN UpperLetters : UpperLetters[i] = c]
    ELSE c

toUpperCase(s) == [i \in DOMAIN s |-> UpperChar(s[i])]

toLowerCase(s) == [i \in DOMAIN s |-> LowerChar(s[i])]

\* whether needle occurs in hay at the 0-based index i
OccursAt(hay, needle, i) ==
    /\ i >= 0
    /\ i + Len(needle) <= Len(hay)
    /\ \A k \in 1..Len(needle) : hay[i + k] = needle[k]

\* String.prototype.includes
includes(hay, needle) == \E i \in 0..Len(hay) : OccursAt(hay, needle, i)

\* String.prototype.indexOf: the 0-based index of the first occurrence, or -1
indexOf(hay, needle) ==
    IF includes(hay, needle)
    THEN CHOOSE i \in 0..Len(hay) :
            /\ OccursAt(hay, needle, i)
            /\ \A j \in 0..(i - 1) : ~OccursAt(hay, needle, j)
    ELSE -1

\* String.prototype.slice(start, end) for 0 <= start, end <= length
slice(s, start, end) == SubSeq(s, start + 1, end)

(***************************************************************************)
(* Numbers: exact rationals in lowest terms.                               *)
(***************************************************************************)
RECURSIVE Gcd(_, _)
Gcd(a, b) == IF b = 0 THEN a ELSE Gcd(b, a % b)

Abs(x) == IF x < 0 THEN -x ELSE x

NaN == [n |-> 0, d |-> 0]

isNaN(x) == x.d = 0

Rat(n, d) ==
    LET g == Gcd(Abs(n), d)
    IN  [n |-> n \div g, d |-> d \div g]

Whole(k) == [n |-> k, d |-> 1]

RSub(x, y) == Rat(x.n * y.d - y.n * x.d, x.d * y.d)

RMul(x, y) == Rat(x.n * y.n, x.d * y.d)

\* x / y for y > 0
RDiv(x, y) == Rat(x.n * y.d, x.d * y.n)

RLess(x, y) == x.n * y.d < y.n * x.d

RLeq(x, y) == x.n * y.d <= y.n * x.d

\* Math.round: the nearest integer, a half rounding up
MathRound(x) == (2 * x.n + x.d) \div (2 * x.d)

(***************************************************************************)
(* extractNumbers: the pattern                                             *)
(*   /\d{1,3}(,\d{3})*(\.\d+)?|\d+\.\d+|\d+/g                              *)
(* matched as String.prototype.match does: leftmost, the alternatives in   *)
(* order, each quantifier greedy, the search resuming after each match.    *)
(* Positions here are 1-based positions of the sequence; an operator       *)
(* returns the position after what it matched, or NoMatch.                 *)
(***************************************************************************)
NoMatch == -1

\* the number of consecutive digits of t from position i on
RECURSIVE DigitRun(_, _)
DigitRun(t, i) ==
    IF i <= Len(t) /\ IsDigit(t[i]) THEN 1 + DigitRun(t, i + 1) ELSE 0

\* (,\d{3})* from position p
RECURSIVE MatchGroups(_, _)
MatchGroups(t, p) ==
    IF p <= Len(t) /\ t[p] = "," /\ DigitRun(t, p + 1) >= 3
    THEN MatchGroups(t, p + 4)
    ELSE p

\* (\.\d+)? from position p
MatchFraction(t, p) ==
    IF p <= Len(t) /\ t[p] = "." /\ DigitRun(t, p + 1) >= 1
    THEN p + 1 + DigitRun(t, p + 1)
    ELSE p

\* \d{1,3}(,\d{3})*(\.\d+)?
MatchGrouped(t, i) ==
    IF DigitRun(t, i) = 0 THEN NoMatch
    ELSE MatchFraction(t, MatchGroups(t, i + Min(3, DigitRun(t, i))))

\* \d+\.\d+
MatchDecimal(t, i) ==
    LET p == i + DigitRun(t, i)
    IN  IF DigitRun(t, i) >= 1 /\ p <= Len(t) /\ t[p] = "."
           /\ DigitRun(t, p + 1) >= 1
        THEN p + 1 + DigitRun(t, p + 1)
        ELSE NoMatch

\* \d+
MatchPlain(t, i) ==
    IF DigitRun(t, i) >= 1 THEN i + DigitRun(t, i) ELSE NoMatch

\* the three alternatives, the first that matches at i
numberPattern(t, i) ==
    IF MatchGrouped(t, i) # NoMatch THEN MatchGrouped(t, i)
    ELSE IF MatchDecimal(t, i) # NoMatch THEN MatchDecimal(t, i)
    ELSE MatchPlain(t, i)

\* the first position from i on where the pattern matches, Len(t) + 1 when
\* there is none
NextMatch(t, i) ==
    IF \E p \in i..Len(t) : numberPattern(t, p) # NoMatch
    THEN CHOOSE p \in i..Len(t) :
            /\ numberPattern(t, p) # NoMatch
            /\ \A q \in i..(p - 1) : numberPattern(t, q) = NoMatch
    ELSE Len(t) + 1

\* text.match(numberPattern): the matched substrings, from position i on
RECURSIVE MatchAll(_, _)
MatchAll(t, i) ==
    LET p == NextMatch(t, i)
    IN  IF p > Len(t) THEN << >>
        ELSE <<SubSeq(t, p, numberPattern(t, p) - 1)>>
                \o MatchAll(t, numberPattern(t, p))

\* the value of a string of digits
RECURSIVE DigitsValue(_)
DigitsValue(s) ==
    IF s = << >> THEN 0
    ELSE 10 * DigitsValue(SubSeq(s, 1, Len(s) - 1)) + DigitVal(s[Len(s)])

RECURSIVE Pow10(_)
Pow10(k) == IF k = 0 THEN 1 ELSE 10 * Pow10(k - 1)

\* parseFloat of digits with an optional fraction: the longest numeric
\* prefix, NaN when the string does not start with a digit
parseFloat(s) ==
    LET a == DigitRun(s, 1)
        f == IF a + 1 <= Len(s) /\ s[a + 1] = "."
             THEN DigitRun(s, a + 2) ELSE 0
    IN  IF a = 0 THEN NaN
        ELSE Rat(DigitsValue(SubSeq(s, 1, a)) * Pow10(f)
                    + DigitsValue(SubSeq(s, a + 2, a + 1 + f)),
                 Pow10(f))

\* match.replace(/,/g, '')
RemoveCommas(s) == SelectSeq(s, LAMBDA c : c # ",")

IsValid(x) == ~isNaN(x)

IsPositive(x) == x.n > 0

extractNumbers(text) ==
    LET matches == MatchAll(text, 1)
        parsed  == [i \in DOMAIN matches |->
                        parseFloat(RemoveCommas(matches[i]))]
    IN  IF matches = << >> THEN << >>
        ELSE SelectSeq(SelectSeq(parsed, IsValid), IsPositive)

(***************************************************************************)
(* Number.prototype.toLocaleString() in the en-US locale: the integer part *)
(* grouped by thousands, at most three fraction digits (rounded half away  *)
(* from zero), trailing zeros of the fraction dropped.  For x >= 0.        *)
(***************************************************************************)
RECURSIVE NatToString(_)
NatToString(k) ==
    IF k < 10 THEN <<Digits[k + 1]>>
    ELSE NatToString(k \div 10) \o <<Digits[(k % 10) + 1]>>

\* the three digits of k < 1000
ThreeDigits(k) ==
    <<Digits[(k \div 100) + 1], Digits[((k \div 10) % 10) + 1],
      Digits[(k % 10) + 1]>>

RECURSIVE Grouped(_)
Grouped(k) ==
    IF k < 1000 THEN NatToString(k)
    ELSE Grouped(k \div 1000) \o <<",">> \o ThreeDigits(k % 1000)

RECURSIVE DropTrailingZeros(_)
DropTrailingZeros(s) ==
    IF s # << >> /\ s[Len(s)] = "0"
    THEN DropTrailingZeros(SubSeq(s, 1, Len(s) - 1))
    ELSE s

toLocaleString(x) ==
    LET whole == x.n \div x.d
        \* the fraction in thousandths, rounded; 1000 carries into the
        \* integer part
        m     == (2 * (x.n % x.d) * 1000 + x.d) \div (2 * x.d)
        frac  == DropTrailingZeros(ThreeDigits(m % 1000))
    IN  Grouped(whole + (m \div 1000))
            \o (IF frac = << >> THEN << >> ELSE <<".">> \o frac)

(***************************************************************************)
(* detectCurrency.  The keys of currencyMap as the source file holds them: *)
(* the non-ASCII keys are stored mis-encoded (UTF-8 bytes read as Mac      *)
(* Roman), so the third key is the eight characters U+00FF U+00D8 U+00FF   *)
(* U+00B1 U+0178 U+00E1 U+0178 U+00D6, the sixth U+201A U+00C7 U+00A8, the *)
(* eighth U+00AC U+00A3 and the tenth U+201A U+00C7 U+03C0.                *)
(* Object.entries yields the keys in insertion order.                      *)
(***************************************************************************)
currencyMap ==
    << [pattern |-> <<"A", "E", "D">>, code |-> "AED"],
       [pattern |-> <<"D", "h">>, code |-> "AED"],
       [pattern |-> <<"U+00FF", "U+00D8", "U+00FF", "U+00B1",
                      "U+0178", "U+00E1", "U+0178", "U+00D6">>,
        code |-> "AED"],
       [pattern |-> <<"$">>, code |-> "USD"],
       [pattern |-> <<"U", "S", "D">>, code |-> "USD"],
       [pattern |-> <<"U+201A", "U+00C7", "U+00A8">>, code |-> "EUR"],
       [pattern |-> <<"E", "U", "R">>, code |-> "EUR"],
       [pattern |-> <<"U+00AC", "U+00A3">>, code |-> "GBP"],
       [pattern |-> <<"G", "B", "P">>, code |-> "GBP"],
       [pattern |-> <<"U+201A", "U+00C7", "U+03C0">>, code |-> "INR"],
       [pattern |-> <<"I", "N", "R">>, code |-> "INR"],
       [pattern |-> <<"R", "s">>, code |-> "INR"] >>

DefaultCurrency == "AED"

\* the loop over Object.entries(currencyMap), from entry k on
RECURSIVE CurrencyFrom(_, _)
CurrencyFrom(upperText, k) ==
    IF k > Len(currencyMap) THEN DefaultCurrency
    ELSE IF includes(upperText, toUpperCase(currencyMap[k].pattern))
         THEN currencyMap[k].code
         ELSE CurrencyFrom(upperText, k + 1)

detectCurrency(text) == CurrencyFrom(toUpperCase(text), 1)

(***************************************************************************)
(* findRevenueNumbers                                                      *)
(***************************************************************************)
revenueKeywords ==
    << <<"r", "e", "v", "e", "n", "u", "e">>,
       <<"s", "a", "l", "e", "s">>,
       <<"t", "o", "t", "a", "l">>,
       <<"i", "n", "c", "o", "m", "e">>,
       <<"e", "a", "r", "n", "i", "n", "g", "s">>,
       <<"g", "r", "o", "s", "s">>,
       <<"n", "e", "t">>,
       <<"r", "e", "c", "e", "i", "v", "e", "d">>,
       <<"c", "o", "l", "l", "e", "c", "t", "e", "d">>,
       <<"t", "u", "r", "n", "o", "v", "e", "r">> >>

\* the characters taken on each side of numIndex
ContextRadius == 100

\* a scorer that starts every number at 0
BaseConfidenceZero == Rat(0, 10)

BaseConfidence == Rat(3, 10)

KeywordBoost == Rat(2, 10)

RAdd(x, y) == Rat(x.n * y.d + y.n * x.d, x.d * y.d)

RMin(x, y) == IF RLeq(x, y) THEN x ELSE y

\* the loop over revenueKeywords, from keyword k on
RECURSIVE BoostFrom(_, _, _)
BoostFrom(context, k, confidence) ==
    IF k > Len(revenueKeywords) THEN confidence
    ELSE BoostFrom(context, k + 1,
                   IF includes(context, revenueKeywords[k])
                   THEN RAdd(confidence, KeywordBoost)
                   ELSE confidence)

\* a scorer that looks for the keywords in the whole text
ContextWholeText(text, numIndex) == toLowerCase(text)

\* the text around numIndex, lowercased
Context(text, numIndex) ==
    LET contextStart == Max(0, numIndex - ContextRadius)
        contextEnd   == Min(Len(text), numIndex + ContextRadius)
    IN  toLowerCase(slice(text, contextStart, contextEnd))

\* the body of numbers.map(...)
ScoreNumber(text, num) ==
    LET numStr     == toLocaleString(num)
        numIndex   == indexOf(text, numStr)
        confidence ==
            IF numIndex # -1
            THEN BoostFrom(Context(text, numIndex), 1, BaseConfidence)
            ELSE BaseConfidence
    IN  [value |-> num, confidence |-> RMin(confidence, Whole(1))]

\* a sort that puts x before the elements of the same confidence
RECURSIVE InsertByConfidenceTiesFirst(_, _)
InsertByConfidenceTiesFirst(sorted, x) ==
    IF sorted = << >> THEN <<x>>
    ELSE IF RLeq(Head(sorted).confidence, x.confidence)
         THEN <<x>> \o sorted
         ELSE <<Head(sorted)>> \o InsertByConfidenceTiesFirst(Tail(sorted), x)

\* Array.prototype.sort((a, b) => b.confidence - a.confidence): a stable
\* sort; x goes before the first element the comparator puts after it
RECURSIVE InsertByConfidence(_, _)
InsertByConfidence(sorted, x) ==
    IF sorted = << >> THEN <<x>>
    ELSE IF RLess(Head(sorted).confidence, x.confidence)
         THEN <<x>> \o sorted
         ELSE <<Head(sorted)>> \o InsertByConfidence(Tail(sorted), x)

RECURSIVE SortByConfidence(_)
SortByConfidence(s) ==
    IF s = << >> THEN << >>
    ELSE InsertByConfidence(SortByConfidence(SubSeq(s, 1, Len(s) - 1)),
                            s[Len(s)])

findRevenueNumbers(text, numbers) ==
    SortByConfidence([i \in DOMAIN numbers |-> ScoreNumber(text, numbers[i])])

(***************************************************************************)
(* calculateGrowth and estimateBreakdown                                   *)
(***************************************************************************)
\* a growth computed from the two periods exchanged
calculateGrowthExchanged(current, previous) ==
    IF current.n = 0 THEN Whole(0)
    ELSE RMul(RDiv(RSub(previous, current), current), Whole(100))

calculateGrowth(current, previous) ==
    IF previous.n = 0 THEN Whole(0)
    ELSE RMul(RDiv(RSub(current, previous), previous), Whole(100))

\* a sort in ascending order
RECURSIVE InsertAscending(_, _)
InsertAscending(sorted, x) ==
    IF sorted = << >> THEN <<x>>
    ELSE IF RLess(x, Head(sorted))
         THEN <<x>> \o sorted
         ELSE <<Head(sorted)>> \o InsertAscending(Tail(sorted), x)

RECURSIVE SortAscending(_)
SortAscending(s) ==
    IF s = << >> THEN << >>
    ELSE InsertAscending(SortAscending(SubSeq(s, 1, Len(s) - 1)), s[Len(s)])

\* [...numbers].sort((a, b) => b - a)
RECURSIVE InsertDescending(_, _)
InsertDescending(sorted, x) ==
    IF sorted = << >> THEN <<x>>
    ELSE IF RLess(Head(sorted), x)
         THEN <<x>> \o sorted
         ELSE <<Head(sorted)>> \o InsertDescending(Tail(sorted), x)

RECURSIVE SortDescending(_)
SortDescending(s) ==
    IF s = << >> THEN << >>
    ELSE InsertDescending(SortDescending(SubSeq(s, 1, Len(s) - 1)), s[Len(s)])

estimateBreakdown(numbers) ==
    IF Len(numbers) = 0
    THEN [thisMonth |-> 0, lastMonth |-> 0, growth |-> 0]
    ELSE IF Len(numbers) = 1
    THEN LET total            == numbers[1]
             estimatedMonthly == RDiv(total, Whole(12))
         IN  [thisMonth |-> MathRound(estimatedMonthly),
              lastMonth |-> MathRound(RMul(estimatedMonthly, Rat(8, 10))),
              growth    |-> 20]
    ELSE LET sortedNumbers == SortDescending(numbers)
             thisMonth     == sortedNumbers[2]
             \* sortedNumbers[2] || (thisMonth * 0.85)
             lastMonth     == IF /\ Len(sortedNumbers) >= 3
                                 /\ sortedNumbers[3].n # 0
                              THEN sortedNumbers[3]
                              ELSE RMul(thisMonth, Rat(85, 100))
         IN  [thisMonth |-> MathRound(thisMonth),
              lastMonth |-> MathRound(lastMonth),
              growth    |-> MathRound(calculateGrowth(thisMonth, lastMonth))]

(***************************************************************************)
(* The images analysed.  An image is known by the text the OCR engine      *)
(* reads in it: <<kind, i1, ..., i5>> names one text of a family.          *)
(***************************************************************************)
Pad(k) == [i \in 1..k |-> " "]

\* j of the scorer's keywords, from the keyword numbered from on, separated
\* by single spaces
RECURSIVE KwText(_, _)
KwText(from, j) ==
    IF j = 0 THEN << >>
    ELSE (IF j = 1 THEN << >> ELSE KwText(from, j - 1) \o <<" ">>)
            \o revenueKeywords[((from + j - 2) % Len(revenueKeywords)) + 1]

FixedTexts ==
    <<
      \* ""
      << >>,
      \* "0"
      <<"0">>,
      \* "-5"
      <<"-", "5">>,
      \* "1,234.56"
      <<"1", ",", "2", "3", "4", ".", "5", "6">>,
      \* "99"
      <<"9", "9">>,
      \* "99.00"
      <<"9", "9", ".", "0", "0">>,
      \* "5 5"
      <<"5", " ", "5">>,
      \* "9 5 9"
      <<"9", " ", "5", " ", "9">>,
      \* "1234"
      <<"1", "2", "3", "4">>,
      \* "1234.56"
      <<"1", "2", "3", "4", ".", "5", "6">>,
      \* "12345"
      <<"1", "2", "3", "4", "5">>,
      \* "0.5"
      <<"0", ".", "5">>,
      \* "007"
      <<"0", "0", "7">>,
      \* "7.5"
      <<"7", ".", "5">>,
      \* "18"
      <<"1", "8">>,
      \* "2.5 1.5"
      <<"2", ".", "5", " ", "1", ".", "5">>,
      \* "AED 500"
      <<"A", "E", "D", " ", "5", "0", "0">>,
      \* "$ EUR"
      <<"$", " ", "E", "U", "R">>,
      \* "EUR $"
      <<"E", "U", "R", " ", "$">>,
      \* "Dh 5"
      <<"D", "h", " ", "5">>,
      \* "rs 10"
      <<"r", "s", " ", "1", "0">>,
      \* "usd 3"
      <<"u", "s", "d", " ", "3">>,
      \* the euro sign, " 5"
      <<"U+20AC", " ", "5">>,
      \* the pound sign, " 5"
      <<"U+00A3", " ", "5">>,
      \* the rupee sign, " 5"
      <<"U+20B9", " ", "5">>,
      \* dirham in Arabic letters, " 5"
      <<"U+062F", "U+0631", "U+0647", "U+0645", " ", "5">>,
      \* the sixth key of currencyMap, " 5"
      <<"U+201A", "U+00C7", "U+00A8", " ", "5">>,
      \* the eighth key of currencyMap, " 5"
      <<"U+00AC", "U+00A3", " ", "5">>,
      \* "gbp inr"
      <<"g", "b", "p", " ", "i", "n", "r">>,
      \* "hello"
      <<"h", "e", "l", "l", "o">>,
      \* "100 50 10"
      <<"1", "0", "0", " ", "5", "0", " ", "1", "0">>,
      \* "1,200"
      <<"1", ",", "2", "0", "0">>,
      \* "100 100 50"
      <<"1", "0", "0", " ", "1", "0", "0", " ", "5", "0">>,
      \* "3 1"
      <<"3", " ", "1">>,
      \* "Total Revenue: $12,450 this month, $10,200 last month"
      <<"T", "o", "t", "a", "l", " ", "R", "e", "v", "e", "n", "u", "e",
        ":", " ", "$", "1", "2", ",", "4", "5", "0", " ", "t", "h", "i",
        "s", " ", "m", "o", "n", "t", "h", ",", " ", "$", "1", "0", ",",
        "2", "0", "0", " ", "l", "a", "s", "t", " ", "m", "o", "n", "t",
        "h">>,
      \* "0.5 0.4"
      <<"0", ".", "5", " ", "0", ".", "4">>
    >>

\* "50", "1,234.56" and "7.1234" (whose formatted string "7.123" is not in
\* the text)
NumberStrings ==
    << <<"5", "0">>,
       <<"1", ",", "2", "3", "4", ".", "5", "6">>,
       <<"7", ".", "1", "2", "3", "4">> >>

\* "5", "revenue 7", "total sales 9.5", "12" and the empty string
Segments ==
    << <<"5">>,
       <<"r", "e", "v", "e", "n", "u", "e", " ", "7">>,
       <<"t", "o", "t", "a", "l", " ", "s", "a", "l", "e", "s", " ", "9", ".",
         "5">>,
       <<"1", "2">>,
       << >> >>

Offsets == (0 - Slack)..Slack

\* a gap of one space, or one wider than the context window
Gap(wide) == IF wide = 1 THEN Pad(ContextRadius + Slack) ELSE Pad(1)

Images ==
    \* one of FixedTexts
    { <<"fixed", i, 0, 0, 0, 0>> : i \in DOMAIN FixedTexts }
    \* j keywords, a gap, a number: the gap around the length at which the
    \* last keyword leaves the 100 characters before the number
    \cup { <<"before", j, ns, off, 0, 0>> :
            j \in 1..MaxKw, ns \in DOMAIN NumberStrings, off \in Offsets }
    \* a number, a gap, j keywords: the gap around the length at which the
    \* first keyword leaves the 100 characters after the start of the number
    \* (edge = 0) or the 100 characters after its end (edge = 1)
    \cup { <<"after", j, ns, off, edge, 0>> :
            j \in 1..MaxKw, ns \in DOMAIN NumberStrings, off \in Offsets,
            edge \in {0, 1} }
    \* keywords on both sides of a number, the same ones or different ones
    \cup { <<"around", j1, j2, from, ns, 0>> :
            j1 \in 0..MaxKw, j2 \in 0..MaxKw, from \in {1, 6},
            ns \in DOMAIN NumberStrings }
    \* three segments and the gaps between them
    \cup { <<"several", s1, s2, s3, p, q>> :
            s1 \in DOMAIN Segments, s2 \in DOMAIN Segments,
            s3 \in DOMAIN Segments, p \in {0, 1}, q \in {0, 1} }

\* data.text of worker.recognize(imageFile)
OcrText(img) ==
    CASE img[1] = "fixed" -> FixedTexts[img[2]]
      [] img[1] = "before" ->
            KwText(1, img[2])
                \o Pad(Max(0, ContextRadius - Len(KwText(img[2], 1)) + img[4]))
                \o NumberStrings[img[3]]
      [] img[1] = "after" ->
            NumberStrings[img[3]]
                \o Pad(Max(0, ContextRadius - Len(KwText(1, 1))
                                - (IF img[5] = 0
                                   THEN Len(NumberStrings[img[3]]) ELSE 0)
                                + img[4]))
                \o KwText(1, img[2])
      [] img[1] = "around" ->
            KwText(1, img[2]) \o <<" ">> \o NumberStrings[img[5]] \o <<" ">>
                \o KwText(img[4], img[3])
      [] img[1] = "several" ->
            Segments[img[2]] \o Gap(img[5]) \o Segments[img[3]] \o Gap(img[6])
                \o Segments[img[4]]

(***************************************************************************)
(* State.  The variables are the positions of the two async functions and  *)
(* what they hold across an await.  The constants the orchestrator         *)
(* computes after the last await (allNumbers, currency, revenueNumbers,    *)
(* the returned object) are functions of extractedText alone and are       *)
(* definitions over the state, each in force from the step that assigns    *)
(* it.                                                                     *)
(***************************************************************************)
VARIABLES
    imageFile,       \* the image analyzeRevenueScreenshot is called with
    pc,              \* where analyzeRevenueScreenshot is: idle, extracting,
                     \* tokenizing, scoring, assembling, done, fallback or
                     \* raised
    epc,             \* where extractTextFromImage is: none, createWorker,
                     \* recognize, terminate, catch, returned or threw
    worker,          \* the Tesseract worker: none, live or terminated
    data,            \* data.text of worker.recognize
    extractedText,
    extractCalls,    \* calls of extractTextFromImage
    \* the state of the App component (src/src/App.tsx)
    file,            \* the selected file, NoImage for null
    preview,         \* the file whose data URL is the preview, or NoImage
    reading,         \* the files whose FileReader has not finished
    showDashboard,
    analysisResult,  \* NoAnalysis for null, or [of |-> the file analysed,
                     \* value |-> the RevenueAnalysis]
    analyzing,
    hpc,             \* where handleGenerateDashboard is: none or awaiting
    analyses         \* calls of analyzeRevenueScreenshot made by the App

appVars ==
    <<file, preview, reading, showDashboard, analysisResult, analyzing, hpc,
      analyses>>

vars ==
    <<imageFile, pc, epc, worker, data, extractedText, extractCalls, appVars>>

NoImage == <<"none", 0, 0, 0, 0, 0>>

NoResult ==
    [totalRevenue |-> 0, currency |-> "", thisMonth |-> 0, lastMonth |-> 0,
     growth |-> 0, confidence |-> Whole(0), rawText |-> << >>,
     detectedNumbers |-> << >>, analysisMethod |-> "none"]

\* analysisResult = null
NoAnalysis == [of |-> NoImage, value |-> NoResult]

\* the useState initial values of App
AppInit ==
    /\ file = NoImage
    /\ preview = NoImage
    /\ reading = {}
    /\ showDashboard = FALSE
    /\ analysisResult = NoAnalysis
    /\ analyzing = FALSE
    /\ hpc = "none"
    /\ analyses = 0

Init ==
    /\ AppInit
    /\ imageFile = NoImage
    /\ pc = "idle"
    /\ epc = "none"
    /\ worker = "none"
    /\ data = << >>
    /\ extractedText = << >>
    /\ extractCalls = 0

(***************************************************************************)
(* extractTextFromImage                                                    *)
(***************************************************************************)
\* analyzeRevenueScreenshot(imageFile) is called and calls
\* extractTextFromImage(imageFile)
Analyze ==
    /\ pc = "idle"
    /\ extractCalls < MaxCalls
    /\ \E img \in Images : imageFile' = img
    /\ pc' = "extracting"
    /\ epc' = "createWorker"
    /\ extractCalls' = extractCalls + 1
    /\ UNCHANGED <<worker, data, extractedText>>
    /\ UNCHANGED appVars

\* await Tesseract.createWorker(...) resolves
CreateWorker ==
    /\ epc = "createWorker"
    /\ worker' = "live"
    /\ epc' = "recognize"
    /\ UNCHANGED <<imageFile, pc, data, extractedText, extractCalls>>
    /\ UNCHANGED appVars

\* await Tesseract.createWorker(...) rejects
CreateWorkerThrows ==
    /\ epc = "createWorker"
    /\ epc' = "catch"
    /\ UNCHANGED <<imageFile, pc, worker, data, extractedText, extractCalls>>
    /\ UNCHANGED appVars

\* await worker.recognize(imageFile) resolves
Recognize ==
    /\ epc = "recognize"
    /\ data' = OcrText(imageFile)
    /\ epc' = "terminate"
    /\ UNCHANGED <<imageFile, pc, worker, extractedText, extractCalls>>
    /\ UNCHANGED appVars

\* await worker.recognize(imageFile) rejects
RecognizeThrows ==
    /\ epc = "recognize"
    /\ epc' = "catch"
    /\ UNCHANGED <<imageFile, pc, worker, data, extractedText, extractCalls>>
    /\ UNCHANGED appVars

\* await worker.terminate() resolves; return data.text
Terminate ==
    /\ epc = "terminate"
    /\ worker' = "terminated"
    /\ epc' = "returned"
    /\ extractedText' = data
    /\ pc' = "tokenizing"
    /\ UNCHANGED <<imageFile, data, extractCalls>>
    /\ UNCHANGED appVars

\* await worker.terminate() rejects
TerminateThrows ==
    /\ epc = "terminate"
    /\ epc' = "catch"
    /\ UNCHANGED <<imageFile, pc, worker, data, extractedText, extractCalls>>
    /\ UNCHANGED appVars

\* catch (error) { ...; throw new Error('Failed to extract text from image') }
ExtractCatch ==
    /\ epc = "catch"
    /\ epc' = "threw"
    /\ UNCHANGED <<imageFile, pc, worker, data, extractedText, extractCalls>>
    /\ UNCHANGED appVars

(***************************************************************************)
(* analyzeRevenueScreenshot                                                *)
(***************************************************************************)
\* STEP 2 and STEP 3: allNumbers and currency are assigned
Tokenize ==
    /\ pc = "tokenizing"
    /\ pc' = "scoring"
    /\ UNCHANGED <<imageFile, epc, worker, data, extractedText, extractCalls>>
    /\ UNCHANGED appVars

\* STEP 4: revenueNumbers is assigned
Score ==
    /\ pc = "scoring"
    /\ pc' = "assembling"
    /\ UNCHANGED <<imageFile, epc, worker, data, extractedText, extractCalls>>
    /\ UNCHANGED appVars

\* STEP 5 to STEP 7, and the return
Assemble ==
    /\ pc = "assembling"
    /\ pc' = "done"
    /\ UNCHANGED <<imageFile, epc, worker, data, extractedText, extractCalls>>
    /\ UNCHANGED appVars

\* a catch block that rethrows the error
CatchTargetRethrow == "raised"

\* where the catch block of analyzeRevenueScreenshot leaves the invocation:
\* it returns the fallback object
CatchTarget == "fallback"

\* a catch block that tries the analysis again
AnalyzeCatchRetry ==
    /\ pc = "extracting"
    /\ epc = "threw"
    /\ pc' = "idle"
    /\ epc' = "none"
    /\ UNCHANGED <<imageFile, worker, data, extractedText, extractCalls>>
    /\ UNCHANGED appVars

\* the catch block of analyzeRevenueScreenshot
AnalyzeCatch ==
    /\ pc = "extracting"
    /\ epc = "threw"
    /\ pc' = CatchTarget
    /\ UNCHANGED <<imageFile, epc, worker, data, extractedText, extractCalls>>
    /\ UNCHANGED appVars

Next ==
    \/ Analyze
    \/ CreateWorker
    \/ CreateWorkerThrows
    \/ Recognize
    \/ RecognizeThrows
    \/ Terminate
    \/ TerminateThrows
    \/ ExtractCatch
    \/ Tokenize
    \/ Score
    \/ Assemble
    \/ AnalyzeCatch

Spec == Init /\ [][Next]_vars

\* The event loop runs every continuation that is ready, and the OCR engine
\* settles each promise the extractor awaits.
FairSpec == Spec /\ WF_vars(Next)

(***************************************************************************)
(* The constants of analyzeRevenueScreenshot and the object it returns.    *)
(***************************************************************************)
\* the invocation has returned a result to its caller
Ended == pc \in {"done", "fallback"}

Tokenized == pc \in {"scoring", "assembling", "done"}

Scored == pc \in {"assembling", "done"}

\* const allNumbers = extractNumbers(extractedText)
allNumbers == IF Tokenized THEN extractNumbers(extractedText) ELSE << >>

\* const currency = detectCurrency(extractedText)
currency == IF Tokenized THEN detectCurrency(extractedText) ELSE ""

\* const revenueNumbers = findRevenueNumbers(extractedText, allNumbers)
revenueNumbers ==
    IF Scored THEN findRevenueNumbers(extractedText, allNumbers) ELSE << >>

\* Math.max(...allNumbers)
RECURSIVE MathMax(_)
MathMax(s) ==
    IF Len(s) = 1 THEN s[1]
    ELSE LET m == MathMax(Tail(s)) IN IF RLess(m, s[1]) THEN s[1] ELSE m

\* STEP 5 to STEP 7 and the object returned
AssembleResult(text, numbers, detected, scored, breakdown) ==
    LET totalRevenue ==
            IF Len(scored) > 0 THEN Head(scored).value
            ELSE IF Len(numbers) > 0 THEN MathMax(numbers) ELSE Whole(0)
        overallConfidence ==
            IF Len(scored) > 0 THEN Head(scored).confidence
            ELSE BaseConfidence
    IN  [totalRevenue |-> MathRound(totalRevenue), currency |-> detected,
         thisMonth |-> breakdown.thisMonth, lastMonth |-> breakdown.lastMonth,
         growth |-> breakdown.growth, confidence |-> overallConfidence,
         rawText |-> text, detectedNumbers |-> numbers,
         analysisMethod |-> "ocr"]

AssembledResult ==
    AssembleResult(extractedText, allNumbers, currency, revenueNumbers,
                   estimateBreakdown(allNumbers))

\* the characters of 'OCR failed'
OcrFailed == <<"O", "C", "R", " ", "f", "a", "i", "l", "e", "d">>

\* the object returned by the catch block of analyzeRevenueScreenshot
FallbackResult ==
    [totalRevenue |-> 45680, currency |-> "AED", thisMonth |-> 12450,
     lastMonth |-> 10200, growth |-> 22, confidence |-> Rat(1, 10),
     rawText |-> OcrFailed, detectedNumbers |-> << >>,
     analysisMethod |-> "mock"]

\* what the invocation has returned to its caller
result ==
    IF pc = "done" THEN AssembledResult
    ELSE IF pc = "fallback" THEN FallbackResult
    ELSE NoResult

\* pending, returned or raised (to the caller)
outcome ==
    IF pc \in {"done", "fallback"} THEN "returned"
    ELSE IF pc = "raised" THEN "raised"
    ELSE "pending"

(***************************************************************************)
(* The App component (src/src/App.tsx): the handlers of the file input,    *)
(* of the Generate Dashboard button and of the Analyze Another Screenshot  *)
(* button, with the analysis the App awaits run by the steps above.  A     *)
(* control can be used when it is rendered and not disabled.               *)
(***************************************************************************)
\* the screenshots the user selects: "AED 500" and "100 50 10"
AppFiles == { <<"fixed", 17, 0, 0, 0, 0>>, <<"fixed", 31, 0, 0, 0, 0>> }

\* handleFileSelect, the input being rendered while the dashboard is not
\* shown; the change event comes with a file other than the selected one
HandleFileSelect ==
    /\ ~showDashboard
    /\ \E selectedFile \in AppFiles :
            /\ selectedFile # file
            /\ file' = selectedFile
            /\ reading' = reading \cup {selectedFile}
    /\ showDashboard' = FALSE
    /\ analysisResult' = NoAnalysis
    /\ UNCHANGED <<preview, analyzing, hpc, analyses>>
    /\ UNCHANGED <<imageFile, pc, epc, worker, data, extractedText,
                   extractCalls>>

\* reader.onloadend
PreviewLoaded ==
    /\ \E f \in reading :
            /\ preview' = f
            /\ reading' = reading \ {f}
    /\ UNCHANGED <<file, showDashboard, analysisResult, analyzing, hpc,
                   analyses>>
    /\ UNCHANGED <<imageFile, pc, epc, worker, data, extractedText,
                   extractCalls>>

\* handleGenerateDashboard up to its await: the button is rendered with the
\* preview while the dashboard is not shown, and is disabled while analyzing
HandleGenerateDashboard ==
    /\ preview # NoImage
    /\ ~showDashboard
    /\ ~analyzing
    /\ hpc = "none"
    /\ analyses < MaxAnalyses
    /\ IF file = NoImage
       THEN \* if (!file) { toast.error(...); return }
            UNCHANGED vars
       ELSE /\ analyzing' = TRUE
            /\ hpc' = "awaiting"
            /\ analyses' = analyses + 1
            \* analyzeRevenueScreenshot(file) up to its first await
            /\ imageFile' = file
            /\ pc' = "extracting"
            /\ epc' = "createWorker"
            /\ worker' = "none"
            /\ data' = << >>
            /\ extractedText' = << >>
            /\ extractCalls' = 1
            /\ UNCHANGED <<file, preview, reading, showDashboard,
                           analysisResult>>

\* handleGenerateDashboard from its await on: the try block, or the catch
\* block when the analysis raised, and the finally block
GenerateResume ==
    /\ hpc = "awaiting"
    /\ pc \in {"done", "fallback", "raised"}
    /\ IF pc = "raised"
       THEN UNCHANGED <<analysisResult, showDashboard>>
       ELSE /\ analysisResult' = [of |-> imageFile, value |-> result]
            /\ showDashboard' = TRUE
    /\ analyzing' = FALSE
    /\ hpc' = "none"
    /\ UNCHANGED <<file, preview, reading, analyses>>
    /\ UNCHANGED <<imageFile, pc, epc, worker, data, extractedText,
                   extractCalls>>

\* the onClick of Analyze Another Screenshot, rendered in the dashboard
TryAnother ==
    /\ showDashboard
    /\ analysisResult # NoAnalysis
    /\ showDashboard' = FALSE
    /\ analysisResult' = NoAnalysis
    /\ file' = NoImage
    /\ preview' = NoImage
    /\ UNCHANGED <<reading, analyzing, hpc, analyses>>
    /\ UNCHANGED <<imageFile, pc, epc, worker, data, extractedText,
                   extractCalls>>

AppNext ==
    \/ HandleFileSelect
    \/ PreviewLoaded
    \/ HandleGenerateDashboard
    \/ CreateWorker
    \/ CreateWorkerThrows
    \/ Recognize
    \/ RecognizeThrows
    \/ Terminate
    \/ TerminateThrows
    \/ ExtractCatch
    \/ Tokenize
    \/ Score
    \/ Assemble
    \/ AnalyzeCatch
    \/ GenerateResume
    \/ TryAnother

AppSpec == Init /\ [][AppNext]_vars

(***************************************************************************)
(* Properties.                                                             *)
(***************************************************************************)
\* res is the fixed fallback result
IsFallback(res) ==
    /\ res.totalRevenue = 45680
    /\ res.currency = "AED"
    /\ res.thisMonth = 12450
    /\ res.lastMonth = 10200
    /\ res.growth = 22
    /\ res.confidence = [n |-> 1, d |-> 10]
    /\ res.rawText = <<"O", "C", "R", " ", "f", "a", "i", "l", "e", "d">>
    /\ res.detectedNumbers = << >>
    /\ res.analysisMethod = "mock"

FallbackIffExtractorFailed(res) ==
    /\ (epc = "threw" /\ pc # "extracting") =>
            pc = "fallback" /\ outcome = "returned" /\ IsFallback(res)
    /\ (Ended /\ epc # "threw") =>
            pc = "done" /\ res.analysisMethod = "ocr"
    /\ res.analysisMethod = "mock" => epc = "threw"

\* C1: whenever the extractor fails, analyzeRevenueScreenshot raises nothing
\* to its caller and returns exactly the fixed fallback result; and a result
\* is tagged as the fallback ('mock') only when the extractor failed.
C1_FallbackOnExtractorFailure ==
    outcome # "raised" /\ FallbackIffExtractorFailed(result)

\* C1 witness: recognition threw after the worker was created, and the
\* invocation has returned
C1_Witness == pc = "fallback" /\ worker = "live" /\ outcome = "returned"

\* C2: in every invocation that has ended, on the normal path or on the
\* fallback, the OCR worker it created has been terminated.
C2_WorkerReleased == Ended => worker # "live"

\* C3: every invocation ends in done or in fallback and stays there; the
\* state only moves along idle, extracting, tokenizing, scoring, assembling,
\* done, or to fallback; and the extractor is called at most once.
C3_PipelineOrder ==
    /\ pc = "idle" ~> Ended
    /\ [][ \/ <<pc, pc'>> \in { <<"idle", "extracting">>,
                               <<"extracting", "tokenizing">>,
                               <<"tokenizing", "scoring">>,
                               <<"scoring", "assembling">>,
                               <<"assembling", "done">> }
           \/ (pc' = "fallback" /\ ~Ended)
           \/ pc' = pc ]_vars
    /\ [](extractCalls <= 1)

\* C3 witness: an invocation that went through every step to done
C3_Witness ==
    /\ pc = "done"
    /\ extractCalls = 1
    /\ epc = "returned"
    /\ revenueNumbers # << >>

ConfidenceInRange(res) ==
    /\ res.confidence.d > 0
    /\ 0 <= res.confidence.n
    /\ res.confidence.n <= res.confidence.d
    /\ res.totalRevenue >= 0
    /\ res.analysisMethod = "mock" =>
            10 * res.confidence.n = res.confidence.d
    /\ res.analysisMethod = "ocr" =>
            10 * res.confidence.n >= 3 * res.confidence.d

\* C4: every result returned has its confidence in [0, 1] and totalRevenue
\* >= 0; the fallback confidence is 0.1, and every OCR result has a
\* confidence of at least 0.3.
C4_ConfidenceRange == outcome = "returned" => ConfidenceInRange(result)

BaseConfidenceForNoNumber(res) ==
    res.detectedNumbers = << >> /\ res.confidence = [n |-> 3, d |-> 10]

\* C4 witness: an OCR result with no number detected, and so with the base
\* confidence
C4_Witness == pc = "done" /\ BaseConfidenceForNoNumber(result)

(***************************************************************************)
(* The Number Tokenizer                                                    *)
(***************************************************************************)
AllFiniteAndPositive(numbers) ==
    \A i \in DOMAIN numbers : numbers[i].d > 0 /\ numbers[i].n > 0

\* C5: the tokenizer returns only finite, strictly positive values, in order
\* of appearance with duplicates kept ("5 5" gives [5, 5], "9 5 9" gives
\* [9, 5, 9]); the text "0" and the text "-5" each give an empty output,
\* "1,234.56" gives [1234.56], and "99" and "99.00" each give [99].
C5_TokenizerOutput ==
    Tokenized =>
        /\ AllFiniteAndPositive(allNumbers)
        /\ extractedText = <<"5", " ", "5">> =>
                allNumbers = <<Whole(5), Whole(5)>>
        /\ extractedText = <<"9", " ", "5", " ", "9">> =>
                allNumbers = <<Whole(9), Whole(5), Whole(9)>>
        /\ extractedText = <<"0">> => allNumbers = << >>
        /\ extractedText = <<"-", "5">> => allNumbers = << >>
        /\ extractedText = <<"1", ",", "2", "3", "4", ".", "5", "6">> =>
                allNumbers = <<[n |-> 30864, d |-> 25]>>
        /\ extractedText = <<"9", "9">> => allNumbers = <<Whole(99)>>
        /\ extractedText = <<"9", "9", ".", "0", "0">> =>
                allNumbers = <<Whole(99)>>

\* the plain decimal numbers of a text, from position i on: each maximal run
\* of digits, together with the fraction that follows it if there is one
RECURSIVE PlainDecimals(_, _)
PlainDecimals(t, i) ==
    IF \A p \in i..Len(t) : ~IsDigit(t[p]) THEN << >>
    ELSE LET s == CHOOSE p \in i..Len(t) :
                    IsDigit(t[p]) /\ \A q \in i..(p - 1) : ~IsDigit(t[q])
             a == DigitRun(t, s)
             f == IF s + a <= Len(t) /\ t[s + a] = "."
                  THEN DigitRun(t, s + a + 1) ELSE 0
             e == IF f > 0 THEN s + a + 1 + f ELSE s + a
         IN  <<Rat(DigitsValue(SubSeq(t, s, s + a - 1)) * Pow10(f)
                       + DigitsValue(SubSeq(t, s + a + 1, s + a + f)),
                   Pow10(f))>>
                \o PlainDecimals(t, e)

\* C10: in a text with no comma, every maximal run of digits (with the
\* fraction that follows it, if any) gives exactly one element of the
\* output, equal to its numeric value when that is positive; a run of four
\* or more digits is not split.
C10_PlainDecimalIsOneToken ==
    (Tokenized /\ \A i \in DOMAIN extractedText : extractedText[i] # ",") =>
        allNumbers = SelectSeq(PlainDecimals(extractedText, 1), IsPositive)

(***************************************************************************)
(* The Currency Detector                                                   *)
(***************************************************************************)
\* the markers in the declared order: AED, Dh, dirham in Arabic letters, $,
\* USD, the euro sign, EUR, the pound sign, GBP, the rupee sign, INR, Rs
DeclaredMarkers ==
    << [marker |-> <<"A", "E", "D">>, code |-> "AED"],
       [marker |-> <<"D", "h">>, code |-> "AED"],
       [marker |-> <<"U+062F", "U+0631", "U+0647", "U+0645">>, code |-> "AED"],
       [marker |-> <<"$">>, code |-> "USD"],
       [marker |-> <<"U", "S", "D">>, code |-> "USD"],
       [marker |-> <<"U+20AC">>, code |-> "EUR"],
       [marker |-> <<"E", "U", "R">>, code |-> "EUR"],
       [marker |-> <<"U+00A3">>, code |-> "GBP"],
       [marker |-> <<"G", "B", "P">>, code |-> "GBP"],
       [marker |-> <<"U+20B9">>, code |-> "INR"],
       [marker |-> <<"I", "N", "R">>, code |-> "INR"],
       [marker |-> <<"R", "s">>, code |-> "INR"] >>

\* whether the k-th declared marker, uppercased, is in the uppercased text
MarkerFound(upperText, k) ==
    LET marker == toUpperCase(DeclaredMarkers[k].marker)
    IN  \E p \in 0..Len(upperText) : OccursAt(upperText, marker, p)

\* the declared markers found in the text
MarkersFound(text) ==
    LET upperText == toUpperCase(text)
    IN  {k \in DOMAIN DeclaredMarkers : MarkerFound(upperText, k)}

\* C6: the currency is the code of the first declared marker found in the
\* uppercased text, and "AED" when none is found; a text containing
\* "AED 500" gives "AED", and a text containing "$" and "EUR" and no earlier
\* marker gives "USD" wherever the two appear.
C6_FirstDeclaredMarker ==
    Tokenized =>
        LET found == MarkersFound(extractedText)
        IN  /\ \A k \in found :
                    (\A j \in found : k <= j)
                        => currency = DeclaredMarkers[k].code
            /\ found = {} => currency = "AED"
            /\ (\E p \in 0..Len(extractedText) :
                    OccursAt(extractedText,
                             <<"A", "E", "D", " ", "5", "0", "0">>, p))
                    => currency = "AED"
            /\ (4 \in found /\ 7 \in found /\ \A j \in found : j >= 4)
                    => currency = "USD"

(***************************************************************************)
(* The Revenue Scorer                                                      *)
(***************************************************************************)
\* the keywords that lie wholly inside the characters lo .. hi - 1 (0-based)
\* of the lowercased text
KeywordsWithin(lowerText, lo, hi) ==
    {k \in DOMAIN revenueKeywords :
        \E p \in lo..(hi - Len(revenueKeywords[k])) :
            OccursAt(lowerText, revenueKeywords[k], p)}

\* min(1.0, 0.3 + 0.2 * k)
ConfidenceOfCount(k) ==
    IF 3 + 2 * k >= 10 THEN Whole(1) ELSE Rat(3 + 2 * k, 10)

\* the keywords in the 100 characters before the occurrence at the index at
\* of a string of length len, and in the 100 characters after it
KeywordsAroundOccurrence(lowerText, at, len) ==
    IF at = -1 THEN {}
    ELSE KeywordsWithin(lowerText, Max(0, at - 100),
                        Min(Len(lowerText), at + len + 100))

\* the keywords in the 100 characters before the index at and in the 100
\* characters from at on
KeywordsAroundStart(lowerText, at) ==
    IF at = -1 THEN {}
    ELSE KeywordsWithin(lowerText, Max(0, at - 100),
                        Min(Len(lowerText), at + 100))

\* the entry has the confidence of k keywords
ScoredAs(entry, k) ==
    /\ entry.confidence = ConfidenceOfCount(k)
    /\ k >= 1 => RLess(Rat(3, 10), entry.confidence)
    /\ RLeq(entry.confidence, Whole(1))

ScoredAroundOccurrence(text, lowerText, entry, numStr) ==
    ScoredAs(entry,
             Cardinality(KeywordsAroundOccurrence(
                            lowerText, indexOf(text, numStr), Len(numStr))))

ScoredAroundStart(text, lowerText, entry, numStr) ==
    ScoredAs(entry,
             Cardinality(KeywordsAroundStart(lowerText,
                                             indexOf(text, numStr))))

AllScoredAroundOccurrence(text, lowerText, scored) ==
    \A i \in DOMAIN scored :
        ScoredAroundOccurrence(text, lowerText, scored[i],
                               toLocaleString(scored[i].value))

AllScoredAroundStart(text, lowerText, scored) ==
    \A i \in DOMAIN scored :
        ScoredAroundStart(text, lowerText, scored[i],
                          toLocaleString(scored[i].value))

WindowsDiffer(lowerText, at, len) ==
    KeywordsAroundStart(lowerText, at)
        # KeywordsAroundOccurrence(lowerText, at, len)

SomeWindowsDiffer(text, lowerText, scored) ==
    \E i \in DOMAIN scored :
        /\ RLess(Rat(3, 10), scored[i].confidence)
        /\ WindowsDiffer(lowerText,
                         indexOf(text, toLocaleString(scored[i].value)),
                         Len(toLocaleString(scored[i].value)))

IsRounded(r, x) == 2 * Abs(r * x.d - x.n) <= x.d

\* the confidence of each detected number, in input order
InputConfidences(text, lowerText, numbers) ==
    [i \in DOMAIN numbers |->
        ConfidenceOfCount(Cardinality(
            KeywordsAroundStart(lowerText,
                                indexOf(text, toLocaleString(numbers[i])))))]

\* the values of s whose confidence, given by conf, is c
RECURSIVE ValuesAt(_, _, _)
ValuesAt(s, conf, c) ==
    IF s = << >> THEN << >>
    ELSE (IF Head(conf) = c THEN <<Head(s)>> ELSE << >>)
            \o ValuesAt(Tail(s), Tail(conf), c)

\* scored is in descending order of confidence, and the numbers of one
\* confidence are in their input order
RankedStably(numbers, conf, scored) ==
    /\ Len(scored) = Len(numbers)
    /\ \A i \in DOMAIN scored : \A j \in DOMAIN scored :
            i < j => RLeq(scored[j].confidence, scored[i].confidence)
    /\ \A c \in {conf[i] : i \in DOMAIN conf}
                    \cup {scored[i].confidence : i \in DOMAIN scored} :
            ValuesAt([i \in DOMAIN scored |-> scored[i].value],
                     [i \in DOMAIN scored |-> scored[i].confidence], c)
                = ValuesAt(numbers, conf, c)

\* the earliest number among those of the maximal confidence
EarliestOfMaximal(conf) ==
    CHOOSE m \in DOMAIN conf :
        /\ \A j \in DOMAIN conf : RLeq(conf[j], conf[m])
        /\ \A j \in 1..(m - 1) : RLess(conf[j], conf[m])

HeadlineIs(numbers, conf, res) ==
    IF numbers = << >>
    THEN res.totalRevenue = 0 /\ res.confidence = Rat(3, 10)
    ELSE /\ IsRounded(res.totalRevenue, numbers[EarliestOfMaximal(conf)])
         /\ res.confidence = conf[EarliestOfMaximal(conf)]

RankedAndHeadline(numbers, conf, scored, res) ==
    RankedStably(numbers, conf, scored) /\ HeadlineIs(numbers, conf, res)

\* C8: in an OCR result the scored list is in descending order of
\* confidence with ties in input order; totalRevenue is the rounded value of
\* the earliest detected number among those of the maximal confidence, and
\* the confidence of the result is that maximal confidence; with no number
\* detected, totalRevenue = 0 and the confidence is 0.3.
C8_HeadlineIsEarliestOfMaximal ==
    pc = "done" =>
        RankedAndHeadline(allNumbers,
                          InputConfidences(extractedText,
                                           toLowerCase(extractedText),
                                           allNumbers),
                          revenueNumbers, result)

TieAtTheTop(scored) ==
    /\ Len(scored) >= 2
    /\ scored[1].confidence = scored[2].confidence
    /\ MathRound(scored[1].value) # MathRound(scored[2].value)

\* C8 witness: an OCR result whose two first scored numbers have the same
\* confidence and different rounded values
C8_Witness == pc = "done" /\ TieAtTheTop(revenueNumbers)

(***************************************************************************)
(* The Breakdown Estimator                                                 *)
(***************************************************************************)
\* the k-th largest of the numbers, counted with repetitions
NthLargest(numbers, k) ==
    LET v == CHOOSE i \in DOMAIN numbers :
                /\ Cardinality({j \in DOMAIN numbers :
                                    RLess(numbers[i], numbers[j])}) < k
                /\ Cardinality({j \in DOMAIN numbers :
                                    RLeq(numbers[i], numbers[j])}) >= k
    IN  numbers[v]

BreakdownOfTwo(current, previous, res) ==
    /\ IsRounded(res.thisMonth, current)
    /\ IsRounded(res.lastMonth, previous)
    /\ IsRounded(res.growth,
                 RMul(RDiv(RSub(current, previous), previous), Whole(100)))

BreakdownIs(numbers, res) ==
    IF Len(numbers) = 0
    THEN res.thisMonth = 0 /\ res.lastMonth = 0 /\ res.growth = 0
    ELSE IF Len(numbers) = 1
    THEN /\ IsRounded(res.thisMonth, RDiv(numbers[1], Whole(12)))
         /\ IsRounded(res.lastMonth,
                      RDiv(RMul(Rat(8, 10), numbers[1]), Whole(12)))
         /\ res.growth = 20
    ELSE BreakdownOfTwo(NthLargest(numbers, 2),
                        IF Len(numbers) >= 3 THEN NthLargest(numbers, 3)
                        ELSE RMul(Rat(85, 100), NthLargest(numbers, 2)),
                        res)

BreakdownExamples(numbers, res) ==
    /\ numbers = <<Whole(100), Whole(50), Whole(10)>> =>
            res.thisMonth = 50 /\ res.lastMonth = 10 /\ res.growth = 400
    /\ numbers = <<Whole(1200)>> =>
            res.thisMonth = 100 /\ res.lastMonth = 80 /\ res.growth = 20
    /\ numbers = << >> =>
            res.thisMonth = 0 /\ res.lastMonth = 0 /\ res.growth = 0

\* C9: with no number the breakdown is all zeros; with one number n it is
\* round(n / 12), round(0.8 * n / 12) and 20; with two or more, current
\* being the second largest and previous the third largest (85% of current
\* when there is no third), it is round(current), round(previous) and
\* round((current - previous) / previous * 100).  [100, 50, 10] gives
\* (50, 10, 400) and [1200] gives (100, 80, 20).
C9_Breakdown ==
    pc = "done" =>
        /\ BreakdownIs(allNumbers, result)
        /\ BreakdownExamples(allNumbers, result)

ThirdAboveFirst(numbers, res) ==
    /\ Len(numbers) >= 3
    /\ RLess(numbers[1], numbers[3])
    /\ res.thisMonth > res.lastMonth

\* C9 witness: a result from three numbers or more, of which the second and
\* the third largest are not the second and the third detected
C9_Witness == pc = "done" /\ ThirdAboveFirst(allNumbers, result)

ZeroGrowthWhenNoPrevious(res) == res.lastMonth = 0 => res.growth = 0

\* C11: in every output of the Breakdown Estimator whose previous period
\* (lastMonth) is 0, the growth is 0.
C11_ZeroGrowthWhenPreviousIsZero ==
    pc = "done" => ZeroGrowthWhenNoPrevious(result)

GrowthNotNegative(numbers, res) ==
    /\ res.growth >= 0
    /\ res.lastMonth <= res.thisMonth
    /\ res.analysisMethod = "mock" => res.growth = 22
    /\ (res.analysisMethod = "ocr" /\ Len(numbers) = 1) => res.growth = 20
    /\ (res.analysisMethod = "ocr" /\ Len(numbers) = 0) => res.growth = 0

\* C13: in every result returned growth >= 0 and the previous period
\* (lastMonth) is at most the current one (thisMonth); the growth is 22 in
\* the fallback, 20 with one number detected and 0 with none.
C13_GrowthNeverNegative ==
    outcome = "returned" => GrowthNotNegative(allNumbers, result)

StrictGrowth(numbers, res) ==
    /\ Len(numbers) >= 2
    /\ res.growth > 0
    /\ res.lastMonth < res.thisMonth
    /\ \E i \in DOMAIN numbers : \E j \in DOMAIN numbers :
            i < j /\ RLess(numbers[i], numbers[j])

\* C13 witness: an OCR result from two numbers or more, not detected in
\* descending order, with a positive growth
C13_Witness == pc = "done" /\ StrictGrowth(allNumbers, result)

(***************************************************************************)
(* The App                                                                 *)
(***************************************************************************)
\* C12: the dashboard never shows an analysis result computed from a file
\* other than the currently selected file.
C12_NoStaleResult ==
    (showDashboard /\ analysisResult # NoAnalysis) => analysisResult.of = file

=============================================================================
